---- MODULE Spec2Model ----
(***************************************************************************)
(* Model of run_sit_e2e.py: the Scenario Runner (class E2eTest) and the    *)
(* Run Coordinator (class E2eTests) with the __main__ block that drives    *)
(* them.  The remote service and the reporting sink are the environment:   *)
(* every HTTP call takes its response (or the exception it raises) as a    *)
(* nondeterministic input.                                                 *)
(***************************************************************************)
EXTENDS Integers, Sequences, FiniteSets, TLC

\* ---------------------------------------------------------------- bounds
\* number of scenarios of TESTS_TO_EXECUTE a run is configured with (the
\* list of the source has 9 entries; a run of the model uses a non-empty
\* prefix of it of at most MaxTests entries)
MaxTests == 3
\* run identifiers the remote service hands out: 1..MaxRunId
MaxRunId == 1

\* ------------------------------------------------------ program constants
SCENARIOS ==
  << "run_health_checks", "run_sanity_check", "run_casi_sanity",
     "run_casi_resolve_stats_report", "run_tyk_health_check",
     "run_identities_upsert_via_pipeline",
     "run_identities_upsert_for_new_tenant",
     "run_umbrella_end_to_end_v2_test", "run_cdfw_end_to_end_test" >>

SUCCESS_STATUS == "succeeded"
RUNNING_STATUS == "running"
FAILED_STATUS == "failed"
NUM_OF_WAIT_ITER == 15
SLEEP_TIME == 30
START_DELAY == 5
E2E_RUN_FAILED == "E2E RUN FAILED"

\* status values the service is documented to report, plus one value that
\* is none of the three named ones ("still pending")
PENDING_STATUS == "pending"
ServiceStatuses ==
  {RUNNING_STATUS, SUCCESS_STATUS, FAILED_STATUS, PENDING_STATUS}

\* E2eTest.status = {} : the payload of a runner that never had a fetch
\* with status code 200
NoStatus == "{}"
\* E2eTest.run_id = None
NoRunId == 0
RunIds == 1..MaxRunId

HTTP_OK == 200
HTTP_ERROR == 500

VARIABLES
  ntests,        \* length of TESTS_TO_EXECUTE for this run
  pc,            \* position of the single control thread
  idx,           \* run_all: number of scenarios taken from TESTS_TO_EXECUTE
  test_obj,      \* run_all: the runner constructed last (local test_obj)
  all_tests,     \* E2eTests.all_tests
  did_succeed,   \* E2eTests.did_succeed
  i,             \* status_loop: i
  break_all,     \* status_loop: break_all
  all_passed,    \* status_loop: all_passed
  f,             \* status_loop: position of the fetch loop (line 148)
  start_response, \* _run_test: the response received last (local response)
  response,      \* get_status: the response received last (local response)
  posts,         \* notifications posted: <<[status, color, status_code]>>
  raised,        \* exception that left the process, or "none"
  exc_at,        \* where it was raised
  log,           \* markers logged: subset of LogMarkers
  starts,        \* history: outcome of each start call, in order
  fetches,       \* history: number of get_status calls per all_tests index
  iters,         \* history: on_iter calls (polling iterations entered)
  sleeps,        \* history: time.sleep(SLEEP_TIME) calls
  start_sleeps,  \* history: time.sleep(5) calls
  first_all_succeeded, \* history: every fetch of iteration 1 gave 200/succeeded
  only_running   \* history: every evaluation so far saw only 'running'

vars == << ntests, pc, idx, test_obj, all_tests, did_succeed, i, break_all,
           all_passed, f, start_response, response, posts, raised, exc_at, log,
           starts, fetches, iters, sleeps, start_sleeps, first_all_succeeded,
           only_running >>

TESTS_TO_EXECUTE == SubSeq(SCENARIOS, 1, ntests)

\* ------------------------------------------------------ Scenario Runner
\* E2eTest.__init__
NewE2eTest == [scenario_name |-> "None", run_id |-> NoRunId, status |-> NoStatus]

\* responses of GET execute/{test_name}; json = the body parses as JSON
StartResponses ==
  [status_code : {HTTP_OK}, json : {TRUE}, Success : BOOLEAN, id : RunIds]
  \cup [status_code : {HTTP_ERROR}, json : BOOLEAN, Success : {FALSE},
        id : {NoRunId}]

\* no start request answered yet
NoStartResponse ==
  [status_code |-> 0, json |-> TRUE, Success |-> FALSE, id |-> NoRunId]

\* _run_test raises when response.json() is called on a body that is not JSON
\* (line 65 logs response.json() of a non-200 response)
RunTestRaises(r) == ~r.json

\* the value _run_test returns
RunTestResult(r) == r.status_code = HTTP_OK /\ r.Success

\* run as it would be without the assignment of line 59
RunnerAfterRunNoId(t, name, r) ==
  [t EXCEPT !.scenario_name = name]

\* the runner after run(test_name) got response r
RunnerAfterRun(t, name, r) ==
  [t EXCEPT !.scenario_name = name,
            !.run_id = IF r.status_code = HTTP_OK THEN r.id ELSE @]

\* responses of GET admin/status/{run_id}; body is the value of
\* ['e2e_status']['status'] of a 200 payload
StatusResponses ==
  [status_code : {HTTP_OK}, json : {TRUE}, body : ServiceStatuses]
  \cup [status_code : {HTTP_ERROR}, json : BOOLEAN, body : {"error"}]

\* no status request answered yet
NoResponse == [status_code |-> 0, json |-> TRUE, body |-> "none"]

\* get_status raises at line 75, which logs response.json() of any response
GetStatusRaises(r) == ~r.json

\* get_status as it would be if a non-200 response marked the runner as
\* running again instead of keeping the payload
get_status_reset(t, r) ==
  IF r.status_code = HTTP_OK THEN [t EXCEPT !.status = r.body]
  ELSE [t EXCEPT !.status = RUNNING_STATUS]

\* get_status as it would be if a non-200 response dropped the cached payload
get_status_drop(t, r) ==
  IF r.status_code = HTTP_OK THEN [t EXCEPT !.status = r.body]
  ELSE [t EXCEPT !.status = NoStatus]

\* get_status: the cached payload is replaced on status code 200 only
get_status(t, r) ==
  IF r.status_code = HTTP_OK THEN [t EXCEPT !.status = r.body] ELSE t

\* ------------------------------------------------------ Run Coordinator
\* print_status reads status['e2e_status']['status'] of every runner:
\* KeyError on a runner whose payload is still {}
PrintStatusRaises(tests) ==
  \E k \in 1..Len(tests) : tests[k].status = NoStatus

\* the for loop as it would be with "all_passed = (status == SUCCESS_STATUS)"
\* at line 152 (the conjunction with the previous value forgotten)
RECURSIVE EvalFromLastOnly(_, _, _)
EvalFromLastOnly(tests, k, ap) ==
  IF k > Len(tests)
  THEN [all_passed |-> ap, break_all |-> FALSE, raised |-> FALSE]
  ELSE IF tests[k].status = NoStatus
  THEN [all_passed |-> ap, break_all |-> FALSE, raised |-> TRUE]
  ELSE LET ap2 == (tests[k].status = SUCCESS_STATUS)
       IN  IF tests[k].status = FAILED_STATUS
           THEN IF PrintStatusRaises(tests)
                THEN [all_passed |-> ap2, break_all |-> FALSE, raised |-> TRUE]
                ELSE [all_passed |-> ap2, break_all |-> TRUE, raised |-> FALSE]
           ELSE EvalFromLastOnly(tests, k + 1, ap2)

\* the for loop of status_loop, lines 151-159, from runner k on, all_passed
\* being ap so far: the values of all_passed and break_all it leaves, and
\* whether it raised KeyError (lines 152, 153, or print_status at line 155)
RECURSIVE EvalFrom(_, _, _)
EvalFrom(tests, k, ap) ==
  IF k > Len(tests)
  THEN [all_passed |-> ap, break_all |-> FALSE, raised |-> FALSE]
  ELSE IF tests[k].status = NoStatus
  THEN [all_passed |-> ap, break_all |-> FALSE, raised |-> TRUE]
  ELSE LET ap2 == ap /\ (tests[k].status = SUCCESS_STATUS)
       IN  IF tests[k].status = FAILED_STATUS
           THEN IF PrintStatusRaises(tests)
                THEN [all_passed |-> ap2, break_all |-> FALSE, raised |-> TRUE]
                ELSE [all_passed |-> ap2, break_all |-> TRUE, raised |-> FALSE]
           ELSE EvalFrom(tests, k + 1, ap2)

\* status_loop without lines 161-163 (break_all never tested)
DecideNoBreakAll(e) ==
  IF e.raised THEN "KeyError"
  ELSE IF e.all_passed THEN "success"
  ELSE "sleep"

\* status_loop with the test of line 166 inverted
DecideInverted(e) ==
  IF e.raised THEN "KeyError"
  ELSE IF e.break_all THEN "failure"
  ELSE IF ~e.all_passed THEN "success"
  ELSE "sleep"

\* lines 161-173: what an iteration does with the outcome e of the for loop
Decide(e) ==
  IF e.raised THEN "KeyError"
  ELSE IF e.break_all THEN "failure"
  ELSE IF e.all_passed THEN "success"
  ELSE "sleep"

\* status_loop as it would be without the sleep of line 173
SleepsAfterNone(s, n) == s

\* status_loop as it would be if the last iteration did not sleep
SleepsAfterSkipLast(s, n) ==
  IF n + 1 = NUM_OF_WAIT_ITER THEN s ELSE s + 1

\* line 173: the else branch sleeps once, whatever the iteration n (= i)
SleepsAfter(s, n) == s + 1

\* the while condition off by one
LoopContinuesInclusive(n) == n <= NUM_OF_WAIT_ITER

\* the while condition of status_loop, line 146
LoopContinues(n) == n < NUM_OF_WAIT_ITER

\* the timeout test one iteration early
IsTimeoutEarly(n) == n >= NUM_OF_WAIT_ITER - 1

\* line 175
IsTimeout(n) == n = NUM_OF_WAIT_ITER

\* on_end with the two texts of line 102 exchanged
ResultStatusSwapped(ok) == IF ok THEN "Failed" ELSE "Passed"

\* on_end, lines 102-103
ResultStatus(ok) == IF ok THEN "Passed" ELSE "Failed"
ResultColor(ok) == IF ok THEN "good" ELSE "danger"

\* run_all as it would be with "continue" instead of "return" at line 136
AfterStartContinue(result, n, total) ==
  IF n = total THEN "status_loop" ELSE "run_all"

\* where run_all goes after a start call returned result for scenario
\* number n of total: next scenario, status_loop, or return (line 136)
AfterStart(result, n, total) ==
  IF ~result THEN "returned"
  ELSE IF n = total THEN "status_loop" ELSE "run_all"

\* a coordinator that starts out as succeeded
InitDidSucceedTrue == TRUE

\* E2eTests.__init__, line 87
InitDidSucceed == FALSE

PostCodes == {HTTP_OK, HTTP_ERROR}

Init ==
  /\ ntests \in 1..MaxTests
  /\ pc = "run_all"
  /\ idx = 0
  /\ test_obj = NewE2eTest
  /\ all_tests = << >>
  /\ did_succeed = InitDidSucceed
  /\ i = 0
  /\ break_all = FALSE
  /\ all_passed = TRUE
  /\ f = 0
  /\ start_response = NoStartResponse
  /\ response = NoResponse
  /\ posts = << >>
  /\ raised = "none"
  /\ exc_at = "none"
  /\ log = {}
  /\ starts = << >>
  /\ fetches = [k \in 1..MaxTests |-> 0]
  /\ iters = 0
  /\ sleeps = 0
  /\ start_sleeps = 0
  /\ first_all_succeeded = TRUE
  /\ only_running = TRUE

\* an exception nobody catches leaves run_all and ends the process
Abort(name, where) ==
  /\ pc' = "exit_error"
  /\ raised' = name
  /\ exc_at' = where

\* run_all, one pass of the for loop (lines 128-138), the start request
\* answered by r
StartTest ==
  /\ pc = "run_all"
  /\ idx < ntests
  /\ \E r \in StartResponses :
       LET name == TESTS_TO_EXECUTE[idx + 1]
           t == RunnerAfterRun(NewE2eTest, name, r)
           result == RunTestResult(r)
       IN  /\ idx' = idx + 1
           /\ start_response' = r
           /\ IF RunTestRaises(r)
              THEN /\ Abort("ValueError", "start")
                   /\ test_obj' = [NewE2eTest EXCEPT !.scenario_name = name]
                   /\ starts' = Append(starts, "raised")
                   /\ UNCHANGED << all_tests, start_sleeps >>
              ELSE /\ test_obj' = t
                   /\ starts' = Append(starts, IF result THEN "ok" ELSE "failed")
                   /\ all_tests' = IF result THEN Append(all_tests, t)
                                   ELSE all_tests
                   /\ start_sleeps' = IF result THEN start_sleeps + 1
                                      ELSE start_sleeps
                   /\ pc' = AfterStart(result, idx + 1, ntests)
                   /\ UNCHANGED << raised, exc_at >>
  /\ UNCHANGED << ntests, did_succeed, i, break_all, all_passed, f, response,
                  posts, log, fetches, iters, sleeps, first_all_succeeded,
                  only_running >>

\* the same pass when requests.get raises (line 56)
StartTestRaises ==
  /\ pc = "run_all"
  /\ idx < ntests
  /\ idx' = idx + 1
  /\ test_obj' = [NewE2eTest EXCEPT !.scenario_name = TESTS_TO_EXECUTE[idx + 1]]
  /\ starts' = Append(starts, "raised")
  /\ Abort("ConnectionError", "start")
  /\ UNCHANGED << ntests, start_response, all_tests, did_succeed, i,
                  break_all, all_passed, f, response, posts, log, fetches,
                  iters, sleeps, start_sleeps, first_all_succeeded,
                  only_running >>

\* status_loop, the while test and on_iter (lines 146-147)
LoopHead ==
  /\ pc = "status_loop"
  /\ IF LoopContinues(i)
     THEN /\ iters' = iters + 1
          /\ f' = 1
          /\ pc' = IF Len(all_tests) > 0 THEN "get_status" ELSE "evaluate"
     ELSE /\ pc' = "loop_exit"
          /\ UNCHANGED << iters, f >>
  /\ UNCHANGED << ntests, start_response, idx, test_obj, all_tests,
                  did_succeed, i, break_all, all_passed, response, posts,
                  raised, exc_at, log, starts, fetches, sleeps, start_sleeps,
                  first_all_succeeded, only_running >>

\* status_loop, one pass of the fetch loop (lines 148-149): get_status of
\* runner f answered by r
GetStatus ==
  /\ pc = "get_status"
  /\ f \in 1..Len(all_tests)
  /\ \E r \in StatusResponses :
       /\ response' = r
       /\ fetches' = [fetches EXCEPT ![f] = @ + 1]
       /\ first_all_succeeded' =
            (first_all_succeeded /\
               (iters > 1 \/ (r.status_code = HTTP_OK /\ r.json
                                /\ r.body = SUCCESS_STATUS)))
       /\ IF GetStatusRaises(r)
          THEN /\ Abort("ValueError", "get_status")
               /\ UNCHANGED << all_tests, f >>
          ELSE /\ all_tests' = [all_tests EXCEPT ![f] = get_status(@, r)]
               /\ f' = f + 1
               /\ pc' = IF f = Len(all_tests) THEN "evaluate" ELSE "get_status"
               /\ UNCHANGED << raised, exc_at >>
  /\ UNCHANGED << ntests, start_response, idx, test_obj, did_succeed, i,
                  break_all, all_passed, posts, log, starts, iters, sleeps,
                  start_sleeps, only_running >>

\* the same pass when requests.get raises (line 72)
GetStatusRaisesTransport ==
  /\ pc = "get_status"
  /\ f \in 1..Len(all_tests)
  /\ fetches' = [fetches EXCEPT ![f] = @ + 1]
  /\ first_all_succeeded' = (first_all_succeeded /\ iters > 1)
  /\ Abort("ConnectionError", "get_status")
  /\ UNCHANGED << ntests, start_response, idx, test_obj, all_tests,
                  did_succeed, i, break_all, all_passed, f, response, posts,
                  log, starts, iters, sleeps, start_sleeps, only_running >>

\* status_loop, lines 150-174: evaluate the cached statuses, then break,
\* or sleep and count the iteration
Evaluate ==
  /\ pc = "evaluate"
  /\ LET e == EvalFrom(all_tests, 1, TRUE)
     IN  /\ all_passed' = e.all_passed
         /\ only_running' =
              (only_running /\
                 \A k \in 1..Len(all_tests) :
                    all_tests[k].status = RUNNING_STATUS)
         /\ CASE Decide(e) = "KeyError" ->
                   /\ Abort("KeyError", "evaluate")
                   /\ UNCHANGED << break_all, did_succeed, i, sleeps, log >>
              [] Decide(e) = "failure" ->
                   /\ break_all' = TRUE
                   /\ log' = log \cup {"FAILURE DETECTED"}
                   /\ pc' = "loop_exit"
                   /\ UNCHANGED << did_succeed, i, sleeps, raised, exc_at >>
              [] Decide(e) = "success" ->
                   /\ did_succeed' = TRUE
                   /\ log' = log \cup {"ALL TESTS PASSED"}
                   /\ pc' = "loop_exit"
                   /\ UNCHANGED << break_all, i, sleeps, raised, exc_at >>
              [] Decide(e) = "sleep" ->
                   /\ sleeps' = SleepsAfter(sleeps, i)
                   /\ i' = i + 1
                   /\ pc' = "status_loop"
                   /\ UNCHANGED << break_all, did_succeed, log, raised,
                                   exc_at >>
  /\ UNCHANGED << ntests, start_response, idx, test_obj, all_tests, f,
                  response, posts, starts, fetches, iters, start_sleeps,
                  first_all_succeeded >>

\* status_loop, lines 175-178, with on_end: the timeout marker, then the
\* summary notification, the webhook answering with status code c
OnEnd ==
  /\ pc = "loop_exit"
  /\ \E c \in PostCodes :
       posts' = Append(posts, [status |-> ResultStatus(did_succeed),
                               color |-> ResultColor(did_succeed),
                               status_code |-> c])
  /\ log' = (log \cup (IF IsTimeout(i) THEN {"TIMEOUT"} ELSE {}))
              \cup {"E2E RUN ENDED"}
  /\ pc' = "returned"
  /\ UNCHANGED << ntests, start_response, idx, test_obj, all_tests,
                  did_succeed, i, break_all, all_passed, f, response, raised,
                  exc_at, starts, fetches, iters, sleeps, start_sleeps,
                  first_all_succeeded, only_running >>

\* the same when requests.post raises (line 199)
OnEndRaises ==
  /\ pc = "loop_exit"
  /\ log' = log \cup (IF IsTimeout(i) THEN {"TIMEOUT"} ELSE {})
  /\ Abort("ConnectionError", "post")
  /\ UNCHANGED << ntests, start_response, idx, test_obj, all_tests,
                  did_succeed, i, break_all, all_passed, f, response, posts,
                  starts, fetches, iters, sleeps, start_sleeps,
                  first_all_succeeded, only_running >>

\* __main__, lines 215-217
Main ==
  /\ pc = "returned"
  /\ IF ~did_succeed
     THEN Abort(E2E_RUN_FAILED, "main")
     ELSE /\ pc' = "exit_ok"
          /\ UNCHANGED << raised, exc_at >>
  /\ UNCHANGED << ntests, start_response, idx, test_obj, all_tests,
                  did_succeed, i, break_all, all_passed, f, response, posts,
                  log, starts, fetches, iters, sleeps, start_sleeps,
                  first_all_succeeded, only_running >>

Next ==
  \/ StartTest
  \/ StartTestRaises
  \/ LoopHead
  \/ GetStatus
  \/ GetStatusRaisesTransport
  \/ Evaluate
  \/ OnEnd
  \/ OnEndRaises
  \/ Main

Spec == Init /\ [][Next]_vars

\* the single control thread is never suspended: a step that can be taken
\* is taken
FairSpec == Spec /\ WF_vars(Next)

TypeOK ==
  /\ ntests \in 1..MaxTests
  /\ pc \in {"run_all", "status_loop", "get_status", "evaluate", "loop_exit",
             "returned", "exit_ok", "exit_error"}
  /\ idx \in 0..ntests
  /\ Len(all_tests) <= idx
  /\ did_succeed \in BOOLEAN
  /\ i \in 0..NUM_OF_WAIT_ITER
  /\ Len(posts) \in 0..1

\* ------------------------------------------------------------ properties
\* run_all returned to __main__ (no exception left it)
RunAllReturned ==
  \/ pc \in {"returned", "exit_ok"}
  \/ pc = "exit_error" /\ exc_at = "main"

\* the polling loop is over and no exception left it
PollingOver ==
  /\ iters >= 1
  /\ \/ pc = "loop_exit"
     \/ RunAllReturned
     \/ pc = "exit_error" /\ exc_at = "post"

StatusOf(k) == all_tests[k].status

\* C1: every invocation of run_all that returns has sent exactly one
\* summary notification, whichever path it took.
C1_ExactlyOneNotification ==
  RunAllReturned => Len(posts) = 1

\* C2: once the start call at position p returned false, no later start
\* call is made, no status is ever fetched, status_loop is never entered,
\* and run_all ends with did_succeed = false.
C2_StartFailureStopsRun ==
  \A p \in 1..Len(starts) :
     starts[p] = "failed" =>
       /\ Len(starts) = p
       /\ idx = p
       /\ Len(all_tests) = p - 1
       /\ \A k \in 1..MaxTests : fetches[k] = 0
       /\ iters = 0
       /\ ~did_succeed
       /\ pc = "returned" \/ (pc = "exit_error" /\ exc_at = "main")

\* a start failed at a position that has started runners before it and
\* scenarios after it, and the process has ended
C2_Witness ==
  /\ Len(starts) = 2
  /\ starts[2] = "failed"
  /\ ntests = 3
  /\ Len(all_tests) = 1
  /\ pc = "exit_error"

\* C3: an evaluation that finds a cached status 'failed' ends the polling
\* in that iteration: did_succeed stays false, there is no sleep and no
\* further iteration, whatever the other statuses are; when every runner
\* has a cached status the loop is left by the failure break.
C3_FailedEndsIteration ==
  [][ /\ (pc = "evaluate" /\ \E k \in 1..Len(all_tests) :
                               StatusOf(k) = FAILED_STATUS)
         => /\ ~did_succeed'
            /\ sleeps' = sleeps
            /\ iters' = iters
            /\ i' = i
            /\ pc' \in {"loop_exit", "exit_error"}
            /\ ~PrintStatusRaises(all_tests)
                 => (pc' = "loop_exit" /\ break_all')
      /\ break_all
         => /\ iters' = iters
            /\ sleeps' = sleeps
            /\ ~did_succeed'
            /\ pc' \notin {"status_loop", "get_status", "evaluate"}
    ]_vars

\* the run ended by one failed scenario in a later iteration while all
\* other scenarios had succeeded
C3_Witness ==
  /\ break_all
  /\ pc = "returned"
  /\ ntests = 3
  /\ iters = 2
  /\ sleeps = 1
  /\ StatusOf(1) = SUCCESS_STATUS
  /\ StatusOf(2) = FAILED_STATUS
  /\ StatusOf(3) = SUCCESS_STATUS

\* C4: when every start succeeded and every fetch of the first iteration
\* returned 'succeeded', the run is a success after exactly one polling
\* iteration and without a polling sleep, for every length of the list.
C4_ImmediateSuccess ==
  (iters >= 1 /\ first_all_succeeded /\ pc # "get_status")
    => /\ iters = 1
       /\ sleeps = 0
       /\ i = 0
       /\ Len(all_tests) = ntests
       /\ pc = "evaluate" \/ (did_succeed /\ PollingOver)

C4_Witness ==
  /\ first_all_succeeded
  /\ pc = "exit_ok"
  /\ ntests = MaxTests
  /\ did_succeed
  /\ iters = 1

\* C5: when all starts succeeded and every evaluation saw only 'running',
\* the run ends as timeout failure after exactly NUM_OF_WAIT_ITER
\* iterations; no run has more iterations than that.
C5_TimeoutAfterN ==
  /\ iters <= NUM_OF_WAIT_ITER
  /\ (PollingOver /\ only_running)
       => /\ iters = NUM_OF_WAIT_ITER
          /\ i = NUM_OF_WAIT_ITER
          /\ ~did_succeed
          /\ ~break_all
          /\ pc # "loop_exit" => "TIMEOUT" \in log

C5_Witness ==
  /\ only_running
  /\ pc = "exit_error"
  /\ exc_at = "main"
  /\ ntests >= 2
  /\ iters = NUM_OF_WAIT_ITER
  /\ "TIMEOUT" \in log

\* C6 as stated: a run that stayed 'running' for the whole budget has
\* slept exactly NUM_OF_WAIT_ITER - 1 times when it ends.
C6_Original ==
  (PollingOver /\ only_running) => sleeps = NUM_OF_WAIT_ITER - 1

\* C6 amended: a run that stayed 'running' for the whole budget has slept
\* exactly NUM_OF_WAIT_ITER times when it ends, one sleep after every
\* iteration, the last one included; while it polls, the sleeps are the
\* completed iterations.
C6_SleepsEveryIteration ==
  /\ (PollingOver /\ only_running) => sleeps = NUM_OF_WAIT_ITER
  /\ only_running => sleeps = i

C6_Witness ==
  /\ only_running
  /\ pc = "returned"
  /\ "TIMEOUT" \in log
  /\ sleeps = NUM_OF_WAIT_ITER

\* C7: a status fetch answered with a non-success response never ends the
\* run by itself, in the first iteration either: when the response handled
\* last was a non-success one (with a well-formed body), a process that
\* ended with an exception ended with the RuntimeError of __main__ or with
\* the transport exception of a later HTTP call.
C7_FetchFailureNeverAborts ==
  (pc = "exit_error" /\ response.status_code = HTTP_ERROR /\ response.json)
    => raised \in {E2E_RUN_FAILED, "ConnectionError"}

\* C8: get_status answered with a non-success response (or raising) leaves
\* every runner as it was; answered with 200 it changes the cached status of
\* the runner it was called on and nothing else of any runner.
C8_GetStatusFrame ==
  [][ pc = "get_status"
        => /\ Len(all_tests') = Len(all_tests)
           /\ \A k \in 1..Len(all_tests) :
                /\ all_tests'[k].run_id = all_tests[k].run_id
                /\ all_tests'[k].scenario_name = all_tests[k].scenario_name
                /\ k # f => all_tests'[k] = all_tests[k]
           /\ (pc' = "exit_error" \/ response'.status_code # HTTP_OK)
                => all_tests' = all_tests
           /\ (pc' # "exit_error" /\ response'.status_code = HTTP_OK)
                => all_tests'[f].status = response'.body
    ]_vars

\* a non-success response has just been handled for a runner that has a
\* cached status, next to a runner with a different status
C8_Witness ==
  /\ pc = "get_status"
  /\ f = 3
  /\ response.status_code = HTTP_ERROR
  /\ iters = 2
  /\ StatusOf(1) = PENDING_STATUS
  /\ StatusOf(2) = RUNNING_STATUS

\* C9: a run that did not succeed ends with the RuntimeError of __main__,
\* raised after the summary notification was sent; a run that succeeded
\* ends without an exception.
C9_FailureSignalledAfterNotification ==
  /\ (pc = "exit_error" /\ exc_at = "main")
       => (~did_succeed /\ raised = E2E_RUN_FAILED /\ Len(posts) = 1)
  /\ pc = "exit_ok" => (did_succeed /\ raised = "none")

\* C10 as stated: whenever an HTTP call raised a transport exception,
\* did_succeed is false and no 'Passed' notification was sent.
C10_Original ==
  (pc = "exit_error" /\ raised = "ConnectionError")
    => /\ ~did_succeed
       /\ \A n \in 1..Len(posts) : posts[n].status # "Passed"

\* C10 amended: a transport exception of a start or status call leaves
\* did_succeed false; one of the notification post leaves did_succeed as the
\* polling decided it (true only when every scenario was started and every
\* cached status is 'succeeded'); in each case no notification is sent and
\* the process ends with that exception.
C10_ExceptionNeverMarksSuccess ==
  (pc = "exit_error" /\ raised = "ConnectionError")
    => /\ exc_at \in {"start", "get_status", "post"}
       /\ exc_at \in {"start", "get_status"} => ~did_succeed
       /\ (exc_at = "post" /\ did_succeed)
            => /\ Len(all_tests) = ntests
               /\ \A k \in 1..Len(all_tests) : StatusOf(k) = SUCCESS_STATUS
               /\ "ALL TESTS PASSED" \in log
       /\ posts = << >>

\* the notification post raised after the polling had decided success
C10_Witness ==
  /\ pc = "exit_error"
  /\ raised = "ConnectionError"
  /\ exc_at = "post"
  /\ did_succeed
  /\ ntests = 2

\* the outcome of the start call made last
LastStart == starts[Len(starts)]

\* C11: run(name) makes one request per scenario and returns true exactly
\* when the answer has status code 200 and a true success indicator; on
\* every other answer it returns false; a runner whose run returned true
\* has a run identifier.
C11_RunResult ==
  /\ Len(starts) = idx
  /\ (Len(starts) >= 1 /\ ~(exc_at = "start" /\ raised = "ConnectionError"))
       => /\ LastStart = "ok"
               <=> (start_response.status_code = HTTP_OK
                      /\ start_response.Success)
          /\ LastStart # "ok" => LastStart = "failed"
          /\ LastStart = "ok" => test_obj.run_id \in RunIds

\* C12: did_succeed is true only when a runner exists for every scenario of
\* TESTS_TO_EXECUTE and every cached status is 'succeeded' (none 'failed');
\* it is set in an evaluation that sees exactly that, and it never goes
\* back to false.
C12_SuccessMeansAllSucceeded ==
  /\ [](did_succeed
          => /\ Len(all_tests) = ntests
             /\ \A k \in 1..ntests :
                  /\ all_tests[k].scenario_name = TESTS_TO_EXECUTE[k]
                  /\ StatusOf(k) = SUCCESS_STATUS
                  /\ StatusOf(k) # FAILED_STATUS
             /\ ~break_all)
  /\ [][ /\ did_succeed => did_succeed'
         /\ (~did_succeed /\ did_succeed')
              => /\ pc = "evaluate"
                 /\ Len(all_tests) = ntests
                 /\ \A k \in 1..ntests : StatusOf(k) = SUCCESS_STATUS
                 /\ all_tests' = all_tests
     ]_vars

\* a run of three scenarios that succeeded in a later iteration and ended
C12_Witness ==
  /\ did_succeed
  /\ pc = "exit_ok"
  /\ ntests = 3
  /\ iters = 3

\* number of start calls that returned true
RECURSIVE CountOk(_)
CountOk(s) ==
  IF s = << >> THEN 0
  ELSE (IF s[1] = "ok" THEN 1 ELSE 0) + CountOk(Tail(s))

\* C13: all_tests holds exactly the runners whose start call returned true,
\* in the order of TESTS_TO_EXECUTE (its names are a prefix of the list);
\* each of them has a run identifier; once a start call returned false,
\* all_tests never changes its members again.
C13_AllTestsIsStartedPrefix ==
  /\ [](/\ Len(all_tests) = CountOk(starts)
        /\ Len(all_tests) <= ntests
        /\ \A k \in 1..Len(all_tests) :
             /\ starts[k] = "ok"
             /\ all_tests[k].scenario_name = TESTS_TO_EXECUTE[k]
             /\ all_tests[k].run_id \in RunIds)
  /\ [][ (\E p \in 1..Len(starts) : starts[p] = "failed")
           => all_tests' = all_tests ]_vars

\* two runners were started, the third start returned false, and the
\* process went on to its end
C13_Witness ==
  /\ starts = << "ok", "ok", "failed" >>
  /\ Len(all_tests) = 2
  /\ pc = "exit_error"

\* the process has ended
ProcessEnded == pc \in {"exit_ok", "exit_error"}

\* C14: whatever the service answers (no HTTP call raising), a run that
\* entered the polling has at most NUM_OF_WAIT_ITER iterations, fetches
\* each runner at most NUM_OF_WAIT_ITER times, and reaches on_end: when the
\* process has ended, the summary notification was posted and the end
\* marker logged.
C14_PollingReachesOnEnd ==
  /\ iters <= NUM_OF_WAIT_ITER
  /\ \A k \in 1..MaxTests : fetches[k] <= NUM_OF_WAIT_ITER
  /\ (ProcessEnded /\ iters >= 1
        /\ raised \notin {"ConnectionError", "ValueError"})
       => (Len(posts) = 1 /\ "E2E RUN ENDED" \in log)

\* C15: when the polling ended with a decision (success or scenario
\* failure) in iteration j, exactly j - 1 sleeps were performed, one after
\* each earlier iteration and none in the deciding one.
C15_SleepsBeforeDecision ==
  (PollingOver /\ (did_succeed \/ break_all))
    => /\ sleeps = iters - 1
       /\ i = iters - 1
       /\ iters \in 1..NUM_OF_WAIT_ITER

\* two scenarios, success decided in iteration 2 after one sleep
C15_Witness ==
  /\ ntests = 2
  /\ did_succeed
  /\ pc = "returned"
  /\ iters = 2
  /\ sleeps = 1

\* the lines 175-176 have been executed
TimeoutTestDone ==
  /\ iters >= 1
  /\ \/ RunAllReturned
     \/ pc = "exit_error" /\ exc_at = "post"

\* C16: the timeout marker is logged exactly when the loop ran all
\* NUM_OF_WAIT_ITER iterations and none decided failure or success; a
\* decision taken in the last iteration is not logged as timeout; a timeout
\* leaves did_succeed false.
C16_TimeoutMarker ==
  /\ "TIMEOUT" \in log
       => /\ iters = NUM_OF_WAIT_ITER
          /\ i = NUM_OF_WAIT_ITER
          /\ ~did_succeed
          /\ ~break_all
  /\ TimeoutTestDone
       => ("TIMEOUT" \in log <=> (~did_succeed /\ ~break_all))
  /\ (RunAllReturned /\ iters = 0) => "TIMEOUT" \notin log

\* success decided in the last iteration, not logged as timeout
C16_Witness ==
  /\ pc = "exit_ok"
  /\ iters = NUM_OF_WAIT_ITER
  /\ did_succeed
  /\ "TIMEOUT" \notin log
  /\ "E2E RUN ENDED" \in log

\* C17: in every iteration each started runner is fetched exactly once, in
\* all_tests order, before any status is evaluated (so a failure decision
\* comes after all fetches of its iteration), and a fetch answered with a
\* non-success response is followed by the fetch of the next runner.
C17_FetchAllThenEvaluate ==
  /\ [](/\ pc = "get_status"
             => \A k \in 1..Len(all_tests) :
                  fetches[k] = IF k < f THEN iters ELSE iters - 1
        /\ (pc \in {"evaluate", "loop_exit"} \/ break_all)
             => \A k \in 1..Len(all_tests) : fetches[k] = iters)
  /\ [][ (pc = "get_status" /\ f < Len(all_tests)
            /\ raised' # "ConnectionError")
           => /\ fetches' = [fetches EXCEPT ![f] = @ + 1]
              /\ f' = f + 1
              /\ pc' = "get_status"
     ]_vars

\* C18: the notification of on_end says 'Passed' with colour 'good' exactly
\* when did_succeed is true, 'Failed' with 'danger' otherwise, and
\* did_succeed as returned by run_all is the outcome that was reported.
C18_NotificationMatchesOutcome ==
  \A n \in 1..Len(posts) :
     /\ posts[n].status = "Passed" <=> did_succeed
     /\ posts[n].status = "Failed" <=> ~did_succeed
     /\ posts[n].color = "good" <=> did_succeed
     /\ posts[n].color = "danger" <=> ~did_succeed
     /\ pc = "exit_ok" <=> (ProcessEnded /\ posts[n].status = "Passed")

\* both outcomes: a passed run has ended with its notification
C18_Witness ==
  /\ pc = "exit_ok"
  /\ Len(posts) = 1
  /\ posts[1].status = "Passed"
  /\ posts[1].color = "good"

\* C19: the decision of an iteration is taken from the cached statuses
\* alone: a runner whose status is 'succeeded' keeps it through a fetch
\* answered with a non-success response, and an evaluation that finds every
\* cached status 'succeeded' ends the run as success, whether or not the
\* fetches of that iteration succeeded.
C19_DecisionFromCachedStatus ==
  [][ /\ (pc = "get_status" /\ pc' # "exit_error"
            /\ response'.status_code # HTTP_OK
            /\ StatusOf(f) = SUCCESS_STATUS)
         => all_tests'[f].status = SUCCESS_STATUS
      /\ (pc = "evaluate"
            /\ \A k \in 1..Len(all_tests) : StatusOf(k) = SUCCESS_STATUS)
         => (did_succeed' /\ pc' = "loop_exit" /\ sleeps' = sleeps)
      /\ (pc = "evaluate" /\ did_succeed')
         => \A k \in 1..Len(all_tests) : StatusOf(k) = SUCCESS_STATUS
    ]_vars

\* a run reported as passed in iteration 2 although the fetch made last
\* (of the last runner) was answered with a non-success response
C19_Witness ==
  /\ did_succeed
  /\ pc = "returned"
  /\ posts[1].status = "Passed"
  /\ response.status_code = HTTP_ERROR
  /\ iters = 2
  /\ ntests = 2
  /\ fetches[2] = 2

\* under fairness every run ends
Termination == <>ProcessEnded

====
